---- MODULE Spec2Model ----
(***************************************************************************)
(* Model of command notafter (src/main.go).  The file holds two revisions  *)
(* of the program: lines 1-197 (threshold 28 days, prints the report to    *)
(* standard output before mailing it) and lines 199-390 (threshold 30      *)
(* days, mails the report only).  The variable rev selects the revision a  *)
(* run executes; every operator that differs between them takes it as its  *)
(* first parameter.                                                        *)
(*                                                                         *)
(* Time is counted in ticks; a time.Duration and a time.Time are integers  *)
(* of ticks.  An error value is a sequence: <<>> is nil, <<msg>> is an     *)
(* error whose Error() is msg.                                             *)
(***************************************************************************)
EXTENDS Integers, Sequences, FiniteSets, TLC

VARIABLES
    rev,      \* which revision of main.go runs
    args,     \* flag.Args(): the positional arguments
    stdin,    \* the lines the scanner yields before it stops
    readErr,  \* scanner.Err() after the last line (<<>> = nil)
    pc,       \* position of main
    now,      \* main's local now
    ds,       \* main's local ds
    items,    \* main's local items
    next,     \* the range loop's next index (1-based)
    wg,       \* sync.WaitGroup counter
    wpc,      \* position of each worker goroutine
    conn,     \* each worker's connection: "none", "open", "closed"
    chain,    \* PeerCertificates of each worker's connection (notAfter values)
    ret,      \* (end, err) each worker got back from getCertEnd / check
    body,     \* main's rendered report
    stdout,   \* writes to standard output, in order
    stderr,   \* writes to standard error, in order
    mails,    \* invocations of mail(1), in order
    exit      \* process exit status, -1 while running

vars == <<rev, args, stdin, readErr, pc, now, ds, items, next, wg, wpc, conn,
          chain, ret, body, stdout, stderr, mails, exit>>

----------------------------------------------------------------------------
(* Bounds of the model *)

MaxDomains == 2
TicksPerHour == 1

----------------------------------------------------------------------------
(* Constants of the program *)

Revisions == {"r28", "r30"}

Hour == TicksPerHour
Day == 24 * Hour

notifyExpiryThreshold == 28 * 24 * Hour
expiryThreshold == 30 * 24 * Hour

Threshold(r) == IF r = "r28" THEN notifyExpiryThreshold ELSE expiryThreshold

mailSubject == "notafter: domain cert expiries"

nil == <<>>
Error(e) == e[1]

ZeroTime == 0

\* Item{domain, end, err}
Item(d, e, err) == [domain |-> d, end |-> e, err |-> err]
ZeroItem == Item("", ZeroTime, nil)

----------------------------------------------------------------------------
(* Pure functions *)

\* a run whose subtraction has its operands exchanged
SubSwapped(t, u) == u - t

\* time.Time.Sub (no saturation inside the modelled range)
Sub(t, u) == t - u

\* Go integer division truncates toward zero
GoDiv(a, b) == IF a >= 0 THEN a \div b ELSE -((-a) \div b)

\* a run whose threshold test is >= instead of >
needsNotifyStrict(r, i, n) ==
    IF i.err # nil THEN TRUE
    ELSE IF Sub(i.end, n) >= Threshold(r) THEN FALSE
    ELSE TRUE

needsNotify(r, i, n) ==
    IF i.err # nil THEN TRUE
    ELSE IF Sub(i.end, n) > Threshold(r) THEN FALSE
    ELSE TRUE

\* a run that always appends the plural s
pluralizeAlways(n, noun) == noun \o "s"

pluralize(n, noun) == IF n = 1 THEN noun ELSE noun \o "s"

\* a run without the less-than-a-day case
expiryInfoNoSoon(r, end, n) ==
    LET gap == Sub(end, n) IN
    IF gap > Threshold(r) THEN (IF r = "r28" THEN "good" ELSE "ok")
    ELSE IF gap < 0 THEN (IF r = "r28" THEN "expired" ELSE "already expired")
    ELSE LET k == GoDiv(gap, 24 * Hour) IN
         "expires in " \o ToString(k) \o " " \o pluralize(k, "day")

\* a run whose first case is gap >= threshold
expiryInfoGe(r, end, n) ==
    LET gap == Sub(end, n) IN
    IF gap >= Threshold(r) THEN (IF r = "r28" THEN "good" ELSE "ok")
    ELSE IF gap < 0 THEN (IF r = "r28" THEN "expired" ELSE "already expired")
    ELSE IF gap < 24 * Hour
         THEN (IF r = "r28" THEN "expires in less than 24h"
                            ELSE "expires in less than a day")
    ELSE LET k == GoDiv(gap, 24 * Hour) IN
         "expires in " \o ToString(k) \o " " \o pluralize(k, "day")

\* a run whose second case is gap <= 0
expiryInfoLe0(r, end, n) ==
    LET gap == Sub(end, n) IN
    IF gap > Threshold(r) THEN (IF r = "r28" THEN "good" ELSE "ok")
    ELSE IF gap <= 0 THEN (IF r = "r28" THEN "expired" ELSE "already expired")
    ELSE IF gap < 24 * Hour
         THEN (IF r = "r28" THEN "expires in less than 24h"
                            ELSE "expires in less than a day")
    ELSE LET k == GoDiv(gap, 24 * Hour) IN
         "expires in " \o ToString(k) \o " " \o pluralize(k, "day")

\* a run whose classification compares with the other revision's threshold
expiryInfoOtherThreshold(r, end, n) ==
    LET gap == Sub(end, n) IN
    IF gap > Threshold(IF r = "r28" THEN "r30" ELSE "r28")
    THEN (IF r = "r28" THEN "good" ELSE "ok")
    ELSE IF gap < 0 THEN (IF r = "r28" THEN "expired" ELSE "already expired")
    ELSE IF gap < 24 * Hour
         THEN (IF r = "r28" THEN "expires in less than 24h"
                            ELSE "expires in less than a day")
    ELSE LET k == GoDiv(gap, 24 * Hour) IN
         "expires in " \o ToString(k) \o " " \o pluralize(k, "day")

expiryInfo(r, end, n) ==
    LET gap == Sub(end, n) IN
    IF gap > Threshold(r) THEN (IF r = "r28" THEN "good" ELSE "ok")
    ELSE IF gap < 0 THEN (IF r = "r28" THEN "expired" ELSE "already expired")
    ELSE IF gap < 24 * Hour
         THEN (IF r = "r28" THEN "expires in less than 24h"
                            ELSE "expires in less than a day")
    ELSE LET k == GoDiv(gap, 24 * Hour) IN
         "expires in " \o ToString(k) \o " " \o pluralize(k, "day")

format(r, i, n) ==
    (i.domain \o ": ") \o (IF i.err # nil THEN Error(i.err)
                                          ELSE expiryInfo(r, i.end, n))

\* the chunks the loop writes to the buffer: one newline-terminated line per item
bodyLines(r, its, n) == [k \in 1..Len(its) |-> format(r, its[k], n) \o "\n"]

RECURSIVE Concat(_)
Concat(ss) == IF ss = <<>> THEN "" ELSE Head(ss) \o Concat(Tail(ss))

\* resultsBody (r28) / mailBody (r30): the buffer's contents
resultsBody(r, its, n) == Concat(bodyLines(r, its, n))

\* all: f is the predicate, a function on the elements of s
all(s, f) == \A k \in 1..Len(s) : f[s[k]]

\* strings.TrimSpace on the lines the model feeds
TrimSpace(s) ==
    CASE s = " b.example " -> "b.example"
      [] OTHER -> s

\* a run whose domains drops the scanner's error
domainsDropsErr(r, lines, err) ==
    [out |-> [k \in 1..Len(lines) |-> TrimSpace(lines[k])], err |-> nil]

\* domains: the trimmed lines and the scanner's error.  r28 returns the
\* lines read so far together with the error, r30 returns nil with it.
domains(r, lines, err) ==
    LET out == [k \in 1..Len(lines) |-> TrimSpace(lines[k])] IN
    IF r = "r30" /\ err # nil THEN [out |-> <<>>, err |-> err]
    ELSE [out |-> out, err |-> err]

----------------------------------------------------------------------------
(* Inputs *)

RawLines == {"a.example", " b.example "}

\* the input streams: up to MaxDomains lines, alternating between a line
\* that is already trimmed and one that needs trimming, starting with either
Inputs ==
    {[k \in 1..n |-> IF (k + p) % 2 = 0 THEN "a.example" ELSE " b.example "] :
        n \in 0..MaxDomains, p \in {0, 1}}

ReadErrs == {nil, <<"read /dev/stdin: input/output error">>}

ArgLists == {<<>>, <<"root">>, <<"root", "extra">>}

Base == 3 * Day
\* two clock readings one tick apart, so every gap is met at both sides of
\* each bucket edge
NowSet == {Base, Base + 1}

\* gaps at the edges of the buckets, seen from Base, for the running
\* revision's threshold; seen from Base + 1 each is one tick shorter
Gaps(r) == {-1, 0, Day, 2 * Day, Threshold(r), Threshold(r) + 1}

\* chains a server may present: empty, one certificate, or a leaf followed
\* by an intermediate with a later notAfter
Chains(r) ==
    {<<>>} \cup {<<Base + g>> : g \in Gaps(r)}
           \cup {<<Base + Day, Base + Threshold(r) + 1>>}

\* what DialContext fails with (the second once the 5 s deadline passes)
DialErrs == {<<"dial tcp: connect: connection refused">>,
             <<"dial tcp: i/o timeout">>}

Workers == 1..MaxDomains

----------------------------------------------------------------------------
(* Initial state *)

Init ==
    /\ rev \in Revisions
    /\ args \in ArgLists
    /\ stdin \in Inputs
    /\ readErr \in ReadErrs
    /\ pc = "start"
    /\ now = ZeroTime
    /\ ds = <<>>
    /\ items = <<>>
    /\ next = 1
    /\ wg = 0
    /\ wpc = [w \in Workers |-> "none"]
    /\ conn = [w \in Workers |-> "none"]
    /\ chain = [w \in Workers |-> <<>>]
    /\ ret = [w \in Workers |-> <<ZeroTime, nil>>]
    /\ body = ""
    /\ stdout = <<>>
    /\ stderr = <<>>
    /\ mails = <<>>
    /\ exit = -1

----------------------------------------------------------------------------
(* main *)

\* log.Fatal: prefix "notafter: ", the message, exit status 1
Fatal(msg) ==
    /\ stderr' = Append(stderr, "notafter: " \o msg \o "\n")
    /\ exit' = 1
    /\ pc' = "exited"

\* flag.Parse, the NArg check, recipient, ctx, now := time.Now()
ParseArgs ==
    /\ pc = "start"
    /\ IF Len(args) # 1
       THEN /\ stderr' = Append(stderr, "usage: notafter [<recipient>] < domains.txt\n")
            /\ exit' = 2
            /\ pc' = "exited"
            /\ now' = now
       ELSE /\ \E t \in NowSet : now' = t
            /\ pc' = "parse"
            /\ UNCHANGED <<stderr, exit>>
    /\ UNCHANGED <<rev, args, stdin, readErr, ds, items, next, wg, wpc, conn,
                   chain, ret, body, stdout, mails>>

\* ds, err := domains(os.Stdin); the two fatal checks; items := make(...)
ReadDomains ==
    /\ pc = "parse"
    /\ LET r == domains(rev, stdin, readErr) IN
       IF r.err # nil
       THEN Fatal(Error(r.err)) /\ UNCHANGED <<ds, items>>
       ELSE IF Len(r.out) = 0
       THEN Fatal("no domains") /\ UNCHANGED <<ds, items>>
       ELSE /\ ds' = r.out
            /\ items' = [k \in 1..Len(r.out) |-> ZeroItem]
            /\ pc' = "spawn"
            /\ UNCHANGED <<stderr, exit>>
    /\ UNCHANGED <<rev, args, stdin, readErr, now, next, wg, wpc, conn, chain,
                   ret, body, stdout, mails>>

\* one iteration of the range loop: wg.Add(1); go func(idx){...}(i)
Launch ==
    /\ pc = "spawn"
    /\ next <= Len(ds)
    /\ wg' = wg + 1
    /\ wpc' = [wpc EXCEPT ![next] = "dial"]
    /\ next' = next + 1
    /\ pc' = IF next = Len(ds) THEN "wait" ELSE "spawn"
    /\ UNCHANGED <<rev, args, stdin, readErr, now, ds, items, conn, chain, ret,
                   body, stdout, stderr, mails, exit>>

\* a run whose main does not wait for the workers
WaitNoBarrier ==
    /\ pc = "wait"
    /\ pc' = "decide"
    /\ UNCHANGED <<rev, args, stdin, readErr, now, ds, items, next, wg, wpc,
                   conn, chain, ret, body, stdout, stderr, mails, exit>>

\* wg.Wait() returns once the counter is zero
Wait ==
    /\ pc = "wait"
    /\ wg = 0
    /\ pc' = "decide"
    /\ UNCHANGED <<rev, args, stdin, readErr, now, ds, items, next, wg, wpc,
                   conn, chain, ret, body, stdout, stderr, mails, exit>>

noNotify(i) == ~needsNotify(rev, i, now)

\* if all(items, noNotify) { os.Exit(0) }
Decide ==
    /\ pc = "decide"
    /\ IF all(items, [i \in {items[k] : k \in 1..Len(items)} |-> noNotify(i)])
       THEN exit' = 0 /\ pc' = "exited"
       ELSE exit' = exit /\ pc' = "render"
    /\ UNCHANGED <<rev, args, stdin, readErr, now, ds, items, next, wg, wpc,
                   conn, chain, ret, body, stdout, stderr, mails>>

\* r28: body := resultsBody(items, now); r30: mailBody(items, now), the
\* argument of sendMail inside notify
Render ==
    /\ pc = "render"
    /\ body' = resultsBody(rev, items, now)
    /\ pc' = IF rev = "r28" THEN "print" ELSE "mail"
    /\ UNCHANGED <<rev, args, stdin, readErr, now, ds, items, next, wg, wpc,
                   conn, chain, ret, stdout, stderr, mails, exit>>

\* a run that skips the print
PrintBodySkip ==
    /\ pc = "print"
    /\ pc' = "mail"
    /\ UNCHANGED <<rev, args, stdin, readErr, now, ds, items, next, wg, wpc,
                   conn, chain, ret, body, stdout, stderr, mails, exit>>

\* r28 only: fmt.Print(body)
PrintBody ==
    /\ pc = "print"
    /\ stdout' = Append(stdout, body)
    /\ pc' = "mail"
    /\ UNCHANGED <<rev, args, stdin, readErr, now, ds, items, next, wg, wpc,
                   conn, chain, ret, body, stderr, mails, exit>>

\* what cmd.Run() returns: nil, or mail's failure
RunErrs == {nil, <<"exit status 1">>}

\* a run that sends again after a failed send (once)
SendMailRetry ==
    /\ pc = "mail"
    /\ \E err \in RunErrs :
          /\ mails' = Append(mails, [subject |-> mailSubject, recipient |-> args[1],
                                     stdin |-> body, err |-> err])
          /\ IF err # nil /\ Len(mails) = 0
             THEN UNCHANGED <<pc, exit, stderr>>
             ELSE IF err # nil
             THEN Fatal(Error(err))
             ELSE exit' = 0 /\ pc' = "exited" /\ stderr' = stderr
    /\ UNCHANGED <<rev, args, stdin, readErr, now, ds, items, next, wg, wpc,
                   conn, chain, ret, body, stdout>>

\* a run that drops sendMail's error
SendMailIgnoresErr ==
    /\ pc = "mail"
    /\ \E err \in RunErrs :
          mails' = Append(mails, [subject |-> mailSubject, recipient |-> args[1],
                                  stdin |-> body, err |-> err])
    /\ exit' = 0
    /\ pc' = "exited"
    /\ UNCHANGED <<rev, args, stdin, readErr, now, ds, items, next, wg, wpc,
                   conn, chain, ret, body, stdout, stderr>>

\* sendMail(recipient, body): mail -s mailSubject recipient, body on its
\* standard input; cmd.Run() fails or not (recorded with the invocation);
\* main's log.Fatal or return
SendMail ==
    /\ pc = "mail"
    /\ \E err \in RunErrs :
          /\ mails' = Append(mails, [subject |-> mailSubject, recipient |-> args[1],
                                     stdin |-> body, err |-> err])
          /\ IF err # nil
             THEN Fatal(Error(err))
             ELSE exit' = 0 /\ pc' = "exited" /\ stderr' = stderr
    /\ UNCHANGED <<rev, args, stdin, readErr, now, ds, items, next, wg, wpc,
                   conn, chain, ret, body, stdout>>

----------------------------------------------------------------------------
(* the worker goroutine of index w: getCertEnd (r28) / check (r30) *)

\* a run in which a failed dial is fatal to the process
DialFatal(w) ==
    /\ wpc[w] = "dial"
    /\ exit = -1
    /\ \/ \E e \in {<<"dial tcp: connect: connection refused">>,
                     <<"dial tcp: i/o timeout">>} :
             /\ ret' = [ret EXCEPT ![w] = <<ZeroTime, e>>]
             /\ wpc' = [wpc EXCEPT ![w] = "returned"]
             /\ stderr' = Append(stderr, "notafter: " \o Error(e) \o "\n")
             /\ exit' = 1
             /\ pc' = "exited"
             /\ UNCHANGED <<conn, chain>>
       \/ \E cs \in Chains(rev) :
             /\ conn' = [conn EXCEPT ![w] = "open"]
             /\ chain' = [chain EXCEPT ![w] = cs]
             /\ wpc' = [wpc EXCEPT ![w] = "connected"]
             /\ UNCHANGED <<ret, stderr, exit, pc>>
    /\ UNCHANGED <<rev, args, stdin, readErr, now, ds, items, next, wg,
                   body, stdout, mails>>

\* a run whose workers share one deadline context: a worker's timeout
\* cancels every sibling that is still dialing
DialCancelsSiblings(w) ==
    /\ wpc[w] = "dial"
    /\ exit = -1
    /\ \/ /\ ret' = [ret EXCEPT ![w] = <<ZeroTime, <<"dial tcp: connect: connection refused">> >>]
          /\ wpc' = [wpc EXCEPT ![w] = "returned"]
          /\ UNCHANGED <<conn, chain>>
       \/ /\ ret' = [v \in Workers |->
                        IF wpc[v] = "dial" THEN <<ZeroTime, <<"dial tcp: i/o timeout">> >>
                        ELSE ret[v]]
          /\ wpc' = [v \in Workers |-> IF wpc[v] = "dial" THEN "returned" ELSE wpc[v]]
          /\ UNCHANGED <<conn, chain>>
       \/ \E cs \in Chains(rev) :
             /\ conn' = [conn EXCEPT ![w] = "open"]
             /\ chain' = [chain EXCEPT ![w] = cs]
             /\ wpc' = [wpc EXCEPT ![w] = "connected"]
             /\ ret' = ret
    /\ UNCHANGED <<rev, args, stdin, readErr, pc, now, ds, items, next, wg,
                   body, stdout, stderr, mails, exit>>

\* dialer.DialContext under the 5 s deadline: an error and no connection,
\* or a connection whose handshake presented some chain
Dial(w) ==
    /\ wpc[w] = "dial"
    /\ exit = -1
    /\ \/ \E e \in DialErrs :
             /\ ret' = [ret EXCEPT ![w] = <<ZeroTime, e>>]
             /\ wpc' = [wpc EXCEPT ![w] = "returned"]
             /\ UNCHANGED <<conn, chain>>
       \/ \E cs \in Chains(rev) :
             /\ conn' = [conn EXCEPT ![w] = "open"]
             /\ chain' = [chain EXCEPT ![w] = cs]
             /\ wpc' = [wpc EXCEPT ![w] = "connected"]
             /\ ret' = ret
    /\ UNCHANGED <<rev, args, stdin, readErr, pc, now, ds, items, next, wg,
                   body, stdout, stderr, mails, exit>>

\* a run that reads the last certificate of the chain
certResultLast(cs) ==
    IF Len(cs) = 0 THEN <<ZeroTime, <<"no peer certificates">> >>
    ELSE <<cs[Len(cs)], nil>>

\* what getCertEnd returns once connected
certResult(cs) ==
    IF Len(cs) = 0 THEN <<ZeroTime, <<"no peer certificates">> >>
    ELSE <<cs[1], nil>>

\* a run whose empty-chain return comes before the close
InspectLeaksOnEmpty(w) ==
    /\ wpc[w] = "connected"
    /\ exit = -1
    /\ ret' = [ret EXCEPT ![w] = certResult(chain[w])]
    /\ conn' = [conn EXCEPT ![w] = IF Len(chain[w]) = 0 THEN "open" ELSE "closed"]
    /\ wpc' = [wpc EXCEPT ![w] = "returned"]
    /\ UNCHANGED <<rev, args, stdin, readErr, pc, now, ds, items, next, wg,
                   chain, body, stdout, stderr, mails, exit>>

\* the rest of getCertEnd: PeerCertificates, the empty-chain check, the
\* leaf's NotAfter, and the deferred conn.Close() on return
Inspect(w) ==
    /\ wpc[w] = "connected"
    /\ exit = -1
    /\ ret' = [ret EXCEPT ![w] = certResult(chain[w])]
    /\ conn' = [conn EXCEPT ![w] = "closed"]
    /\ wpc' = [wpc EXCEPT ![w] = "returned"]
    /\ UNCHANGED <<rev, args, stdin, readErr, pc, now, ds, items, next, wg,
                   chain, body, stdout, stderr, mails, exit>>

\* a run that appends each result in completion order
StoreAppend(w) ==
    /\ wpc[w] = "returned"
    /\ exit = -1
    /\ LET k == 1 + Cardinality({v \in Workers : wpc[v] \in {"stored", "done"}}) IN
       items' = [items EXCEPT ![k] = Item(ds[w], ret[w][1], ret[w][2])]
    /\ wpc' = [wpc EXCEPT ![w] = "stored"]
    /\ UNCHANGED <<rev, args, stdin, readErr, pc, now, ds, next, wg, conn,
                   chain, ret, body, stdout, stderr, mails, exit>>

\* a run whose goroutine reads the loop variable instead of its own idx
StoreCaptured(w) ==
    /\ wpc[w] = "returned"
    /\ exit = -1
    /\ LET i == next - 1 IN
       items' = [items EXCEPT ![i] = Item(ds[i], ret[w][1], ret[w][2])]
    /\ wpc' = [wpc EXCEPT ![w] = "stored"]
    /\ UNCHANGED <<rev, args, stdin, readErr, pc, now, ds, next, wg, conn,
                   chain, ret, body, stdout, stderr, mails, exit>>

\* items[idx] = Item{ds[idx], end, err}
Store(w) ==
    /\ wpc[w] = "returned"
    /\ exit = -1
    /\ items' = [items EXCEPT ![w] = Item(ds[w], ret[w][1], ret[w][2])]
    /\ wpc' = [wpc EXCEPT ![w] = "stored"]
    /\ UNCHANGED <<rev, args, stdin, readErr, pc, now, ds, next, wg, conn,
                   chain, ret, body, stdout, stderr, mails, exit>>

\* a run whose goroutine returns on an error before reaching wg.Done
DoneSkipsOnErr(w) ==
    /\ wpc[w] = "stored"
    /\ exit = -1
    /\ wg' = IF ret[w][2] # nil THEN wg ELSE wg - 1
    /\ wpc' = [wpc EXCEPT ![w] = "done"]
    /\ UNCHANGED <<rev, args, stdin, readErr, pc, now, ds, items, next, conn,
                   chain, ret, body, stdout, stderr, mails, exit>>

\* the deferred wg.Done()
Done(w) ==
    /\ wpc[w] = "stored"
    /\ exit = -1
    /\ wg' = wg - 1
    /\ wpc' = [wpc EXCEPT ![w] = "done"]
    /\ UNCHANGED <<rev, args, stdin, readErr, pc, now, ds, items, next, conn,
                   chain, ret, body, stdout, stderr, mails, exit>>

----------------------------------------------------------------------------

Next ==
    \/ ParseArgs
    \/ ReadDomains
    \/ Launch
    \/ Wait
    \/ Decide
    \/ Render
    \/ PrintBody
    \/ SendMail
    \/ \E w \in Workers : Dial(w)
    \/ \E w \in Workers : Inspect(w)
    \/ \E w \in Workers : Store(w)
    \/ \E w \in Workers : Done(w)

Spec == Init /\ [][Next]_vars

\* the steps of main, and of the goroutine of index w
MainStep ==
    ParseArgs \/ ReadDomains \/ Launch \/ Wait \/ Decide \/ Render \/ PrintBody \/ SendMail

WorkerStep(w) == Dial(w) \/ Inspect(w) \/ Store(w) \/ Done(w)

\* the Go scheduler runs every runnable goroutine; a dial returns within its
\* 5 s deadline; reading the input and running mail(1) return
FairSpec ==
    Spec /\ WF_vars(MainStep) /\ \A w \in Workers : WF_vars(WorkerStep(w))

----------------------------------------------------------------------------
(* Vocabulary of the properties *)

N == Len(items)

\* gap = expiry - now of slot k
Gap(k) == items[k].end - now

\* main has taken the notify decision
PastDecision == pc \in {"render", "print", "mail"} \/ (pc = "exited" /\ N > 0)

\* the decision was to notify
NotifyChosen == pc \in {"render", "print", "mail"} \/ mails # <<>>

\* the report has been rendered
Rendered == pc \in {"print", "mail"} \/ mails # <<>>

\* the wording each revision uses for the three fixed buckets
OkText(r) == IF r = "r28" THEN "good" ELSE "ok"
ExpiredText(r) == IF r = "r28" THEN "expired" ELSE "already expired"
SoonText(r) == IF r = "r28" THEN "expires in less than 24h" ELSE "expires in less than a day"

\* the slots a worker has written
Written == {k \in 1..N : wpc[k] \in {"stored", "done"}}

\* the written slots without an error
ErrorFree == {k \in Written : items[k].err = nil}

\* the classification part of slot k's report line
Classification(k) ==
    IF items[k].err # nil THEN Error(items[k].err)
    ELSE expiryInfo(rev, items[k].end, now)

----------------------------------------------------------------------------
(* C1..C10 *)

\* C1: once the decision is taken over a non-empty list of results, the run
\* notifies if and only if some result carries an error or has
\* gap = expiry - now <= threshold.
C1_NotifyIffErrorOrWithinThreshold ==
    PastDecision =>
        (NotifyChosen <=>
            \E k \in 1..N : items[k].err # nil \/ Gap(k) <= Threshold(rev))

\* C1 witness: two ways of the decision at the edge of the threshold: a run
\* that notifies only because one error-free gap equals the threshold.
C1_Witness ==
    /\ pc = "render"
    /\ \A k \in 1..N : items[k].err = nil
    /\ \E k \in 1..N : Gap(k) = Threshold(rev)
    /\ \E k \in 1..N : Gap(k) > Threshold(rev)

\* C2: whenever the report is rendered for N input domains it is exactly the
\* N lines, line i built from the i-th input line and from what worker i
\* got back, whatever the order in which the workers ran.
C2_ReportInInputOrder ==
    Rendered =>
        /\ N = Len(stdin)
        /\ body = Concat([k \in 1..Len(stdin) |->
                    format(rev, Item(TrimSpace(stdin[k]), ret[k][1], ret[k][2]), now)
                        \o "\n"])

\* C2 witness: a rendered report of MaxDomains lines whose first two lines
\* differ in domain and in classification.
C2_Witness ==
    /\ pc = "mail"
    /\ N = MaxDomains
    /\ items[1].domain # items[2].domain
    /\ Classification(1) # Classification(2)

\* C3: a failed probe is never fatal: once some worker has got an error back,
\* the process never exits with the usage status, exits 1 only after a
\* delivery attempt that failed, is never stuck before its exit, and when it
\* has exited it has made one delivery whose text has a line for every
\* domain; its status is 0 unless the delivery's failure was logged.
C3_ProbeFailureNotFatal ==
    (\E k \in 1..N : wpc[k] \in {"returned", "stored", "done"} /\ ret[k][2] # nil) =>
        /\ exit # 2
        /\ exit = 1 => (Len(mails) = 1 /\ stderr = <<"notafter: exit status 1\n">>)
        /\ pc # "exited" => ENABLED Next
        /\ pc = "exited" =>
              /\ Len(mails) = 1
              /\ mails[1].stdin = Concat([k \in 1..N |->
                     (ds[k] \o ": ") \o Classification(k) \o "\n"])
              /\ (stderr = <<>> => exit = 0)

\* C3 witness: every probe failed, the report was delivered, the exit status
\* is 0.
C3_Witness ==
    /\ pc = "exited"
    /\ exit = 0
    /\ N = MaxDomains
    /\ \A k \in 1..N : items[k].err # nil
    /\ Len(mails) = 1

\* C4: when every result is error-free with gap > threshold, the decision
\* ends the process with status 0, nothing on standard output and no
\* delivery attempt.
C4_AllOkSilentExit ==
    (/\ pc \notin {"start", "parse", "spawn", "wait", "decide"}
     /\ N > 0
     /\ \A k \in 1..N : items[k].err = nil /\ Gap(k) > Threshold(rev)) =>
        /\ pc = "exited"
        /\ exit = 0
        /\ stdout = <<>>
        /\ mails = <<>>

\* C4 witness: a silent exit of a run over MaxDomains domains.
C4_Witness ==
    /\ pc = "exited"
    /\ exit = 0
    /\ N = MaxDomains
    /\ \A k \in 1..N : items[k].err = nil /\ Gap(k) > Threshold(rev)
    /\ stdout = <<>>
    /\ mails = <<>>

C6_Original ==
    \A k \in ErrorFree : Gap(k) = Threshold(rev) => Classification(k) = OkText(rev)

\* C6 amended: an error-free result with gap = threshold is not ok: it is
\* classified "expires in N days" with N = threshold / 24h (28 or 30) and
\* needs notification; the smallest gap classified ok is threshold + 1 tick.
C6_ThresholdIsExpiring ==
    \A k \in ErrorFree :
        /\ Gap(k) = Threshold(rev) =>
              /\ Classification(k) =
                    "expires in " \o ToString(IF rev = "r28" THEN 28 ELSE 30) \o " days"
              /\ needsNotify(rev, items[k], now)
              /\ PastDecision => NotifyChosen
        /\ Gap(k) = Threshold(rev) + 1 =>
              /\ Classification(k) = OkText(rev)
              /\ ~needsNotify(rev, items[k], now)

\* C6 witness: a rendered report with an error-free line at gap = threshold.
C6_Witness ==
    /\ Rendered
    /\ \E k \in 1..N : items[k].err = nil /\ Gap(k) = Threshold(rev)

C8_DaysAndPlural ==
    \A k \in ErrorFree :
        (Day <= Gap(k) /\ Gap(k) <= Threshold(rev)) =>
            \E n \in 1..(Threshold(rev) \div Day) :
                /\ n * Day <= Gap(k)
                /\ Gap(k) < (n + 1) * Day
                /\ Classification(k) =
                      "expires in " \o ToString(n) \o (IF n = 1 THEN " day" ELSE " days")

\* C8 witness: a rendered report with a line of one day (gap one tick short
\* of two days) and a line of threshold/24h - 1 days (gap one tick short of
\* the threshold).
C8_Witness ==
    /\ Rendered
    /\ \E k \in 1..N : items[k].err = nil /\ Gap(k) = 2 * Day - 1
    /\ \E k \in 1..N : items[k].err = nil /\ Gap(k) = Threshold(rev) - 1

C10_InputErrorsAbortBeforeProbing ==
    (Len(stdin) = 0 \/ readErr # nil) =>
        /\ pc \in {"start", "parse", "exited"}
        /\ \A w \in Workers : wpc[w] = "none" /\ conn[w] = "none"
        /\ wg = 0
        /\ stdout = <<>>
        /\ mails = <<>>
        /\ pc = "exited" => exit \in {1, 2}

\* C10 witness: the scanner failed after yielding lines and the process has
\* exited with status 1 and the error on standard error.
C10_Witness ==
    /\ Len(stdin) > 0
    /\ readErr # nil
    /\ Len(args) = 1
    /\ pc = "exited"
    /\ exit = 1
    /\ stderr = <<"notafter: " \o Error(readErr) \o "\n">>

----------------------------------------------------------------------------
(* C11..C19 *)

\* some slot needs notification
NotifyNeeded == \E k \in 1..N : needsNotify(rev, items[k], now)

\* C11: mail(1) is invoked at most once in a run: once the run has exited
\* past the decision it was invoked exactly once if notification was needed
\* and never otherwise; it is invoked with the fixed subject and the
\* recipient argument; after an invocation, failed or not, the process has
\* exited and takes no further step (no retry).
C11_MailAtMostOnce ==
    /\ Len(mails) <= 1
    /\ (pc = "exited" /\ N > 0) => (Len(mails) = 1 <=> NotifyNeeded)
    /\ ~PastDecision => mails = <<>>
    /\ mails # <<>> =>
          /\ mails[1].subject = "notafter: domain cert expiries"
          /\ mails[1].recipient = args[1]
          /\ pc = "exited"
          /\ ~ENABLED Next

\* C11 witness: the one delivery failed and the process has exited.
C11_Witness ==
    /\ Len(mails) = 1
    /\ mails[1].err # nil
    /\ pc = "exited"
    /\ exit = 1

C13_JoinBarrier ==
    /\ (pc \in {"decide", "render", "print", "mail"} \/ (pc = "exited" /\ N > 0)) =>
          /\ wg = 0
          /\ \A k \in 1..N :
                /\ wpc[k] = "done"
                /\ items[k] = Item(ds[k], ret[k][1], ret[k][2])
    /\ (\E k \in 1..N : wpc[k] # "done") =>
          /\ pc \in {"spawn", "wait"}
          /\ body = ""
          /\ stdout = <<>>
          /\ mails = <<>>

\* C13 witness: main is deciding over MaxDomains results, all written.
C13_Witness ==
    /\ pc = "decide"
    /\ N = MaxDomains
    /\ \A k \in 1..N : wpc[k] = "done" /\ items[k] # ZeroItem

\* how far a worker has come
Rank(p) ==
    CASE p = "none" -> 0
      [] p = "dial" -> 1
      [] p = "connected" -> 2
      [] p = "returned" -> 3
      [] p = "stored" -> 4
      [] p = "done" -> 5

\* C14: a worker for index k is launched only by the loop iteration of
\* index k, and never for an index beyond the input; a worker only moves
\* forward, so it is launched once and stores once; a step changes slot k
\* only as worker k's store, writes the trimmed k-th input line as its
\* domain, and leaves every other slot alone; no slot changes once main has
\* passed the barrier.
C14_OneWorkerOneSlot ==
    [][ /\ \A k \in Workers :
              /\ Rank(wpc'[k]) >= Rank(wpc[k])
              /\ (wpc[k] = "none" /\ wpc'[k] # "none") =>
                    (pc = "spawn" /\ k = next /\ k <= Len(stdin) /\ wpc'[k] = "dial")
        /\ items # <<>> =>
              /\ Len(items') = Len(items)
              /\ \A k \in 1..Len(items) :
                    items'[k] # items[k] =>
                        /\ wpc[k] = "returned"
                        /\ wpc'[k] = "stored"
                        /\ items[k] = ZeroItem
                        /\ items'[k].domain = TrimSpace(stdin[k])
                        /\ \A j \in 1..Len(items) : j # k => items'[j] = items[j]
                        /\ pc \in {"spawn", "wait"}
        /\ \A k \in 1..Len(items) :
              (wpc[k] = "returned" /\ wpc'[k] = "stored") => items'[k] # items[k]
      ]_vars

\* C14 witness: MaxDomains workers have each written their own slot, with
\* different domains, and the barrier is about to be passed.
C14_Witness ==
    /\ pc = "wait"
    /\ wg = 0
    /\ N = MaxDomains
    /\ \A k \in 1..N : wpc[k] = "done" /\ items[k].domain = TrimSpace(stdin[k])
    /\ items[1].domain # items[2].domain

\* the error of a dial that ran past its deadline
TimeoutErr == <<"dial tcp: i/o timeout">>

\* C15: a worker whose dial fails, by timeout or otherwise, ends with an
\* error result in its own slot only: the step in which it fails changes
\* nothing of any sibling (position, connection, chain, result) and no slot;
\* and every written slot holds its own worker's outcome: the leaf expiry
\* of the chain that worker was presented, or that worker's own error.
C15_TimeoutIsLocal ==
    /\ [](\A k \in 1..N :
            wpc[k] \in {"stored", "done"} =>
                /\ items[k].domain = ds[k]
                /\ IF conn[k] = "closed"
                   THEN /\ Len(chain[k]) > 0 =>
                              (items[k].end = chain[k][1] /\ items[k].err = nil)
                        /\ Len(chain[k]) = 0 =>
                              items[k].err = <<"no peer certificates">>
                   ELSE /\ conn[k] = "none"
                        /\ items[k].err \in DialErrs
                        /\ items[k].end = ZeroTime)
    /\ [][\A w \in Workers :
            (wpc[w] = "dial" /\ wpc'[w] = "returned") =>
                /\ ret'[w][2] \in DialErrs
                /\ \A v \in Workers \ {w} :
                      /\ wpc'[v] = wpc[v]
                      /\ ret'[v] = ret[v]
                      /\ conn'[v] = conn[v]
                      /\ chain'[v] = chain[v]
                /\ items' = items
                /\ pc' = pc
                /\ exit' = exit
       ]_vars

\* C15 witness: one worker timed out, a sibling recorded the expiry of the
\* leaf it was presented, both slots written.
C15_Witness ==
    /\ N = MaxDomains
    /\ \A k \in 1..N : wpc[k] \in {"stored", "done"}
    /\ \E k \in 1..N : items[k].err = TimeoutErr /\ items[k].end = ZeroTime
    /\ \E k \in 1..N : /\ items[k].err = nil
                       /\ Len(chain[k]) > 0
                       /\ items[k].end = chain[k][1]

\* the process has exited with one of its statuses
Terminated == pc = "exited" /\ exit \in {0, 1, 2}

\* how far main has come
MainRank(p) ==
    CASE p = "start" -> 0
      [] p = "parse" -> 1
      [] p = "spawn" -> 2
      [] p = "wait" -> 3
      [] p = "decide" -> 4
      [] p = "render" -> 5
      [] p = "print" -> 6
      [] p = "mail" -> 7
      [] p = "exited" -> 8

Returned == {w \in Workers : wpc[w] \in {"returned", "stored", "done"}}

\* C17: a connection is open exactly while its worker is between the dial
\* and the return of the probe; a worker that is back from the probe has its
\* connection closed if the dial succeeded (chain empty or not) and has none
\* if the dial failed or timed out; so no connection is open when a slot is
\* written, nor once main is past the barrier.
C17_NoConnectionLeak ==
    /\ \A w \in Workers :
          /\ conn[w] = "open" <=> wpc[w] = "connected"
          /\ wpc[w] \in {"none", "dial"} => conn[w] = "none"
          /\ w \in Returned =>
                IF ret[w][2] \in DialErrs THEN conn[w] = "none" ELSE conn[w] = "closed"
    /\ \A k \in Written : conn[k] # "open"
    /\ pc \in {"decide", "render", "print", "mail", "exited"} =>
          \A w \in Workers : conn[w] # "open"

\* C17 witness: past the barrier, one worker was presented an empty chain
\* and its connection is closed, another failed to dial and has none.
C17_Witness ==
    /\ pc = "decide"
    /\ \E w \in Workers : /\ conn[w] = "closed"
                          /\ chain[w] = <<>>
                          /\ ret[w][2] = <<"no peer certificates">>
    /\ \E w \in Workers : conn[w] = "none" /\ ret[w][2] \in DialErrs

\* C18: what a probe returns is either the notAfter of the first
\* certificate of the chain it was presented, with no error, or the zero
\* time with an error; a failed or timed-out dial and an empty chain give
\* the latter; a slot holding an error needs notification, and the decision
\* over it is to notify.
C18_ExpiryXorError ==
    /\ \A w \in Returned :
          \/ /\ ret[w][2] = nil
             /\ conn[w] = "closed"
             /\ Len(chain[w]) > 0
             /\ ret[w][1] = chain[w][1]
          \/ /\ ret[w][2] # nil
             /\ ret[w][1] = ZeroTime
             /\ \/ conn[w] = "none" /\ ret[w][2] \in DialErrs
                \/ /\ conn[w] = "closed"
                   /\ chain[w] = <<>>
                   /\ ret[w][2] = <<"no peer certificates">>
    /\ \A k \in Written :
          items[k].err # nil =>
              /\ items[k].end = ZeroTime
              /\ needsNotify(rev, items[k], now)
              /\ PastDecision => NotifyChosen

\* C18 witness: one slot holds the leaf's expiry of a two-certificate chain
\* whose second certificate expires later, another holds the empty-chain
\* error, and the decision was to notify.
C18_Witness ==
    /\ pc = "render"
    /\ \E k \in 1..N : /\ Len(chain[k]) = 2
                       /\ chain[k][1] # chain[k][2]
                       /\ items[k].end = chain[k][1]
                       /\ items[k].err = nil
    /\ \E k \in 1..N : items[k].err = <<"no peer certificates">>

\* C19: decision and classification agree: an error-free slot is classified
\* ok exactly when it does not need notification (same threshold, same
\* now); the rendered report is built with the now of the decision, and
\* holds at least one line that is not ok.
C19_DecisionMatchesClassification ==
    /\ \A k \in ErrorFree :
          Classification(k) = OkText(rev) <=> ~needsNotify(rev, items[k], now)
    /\ Rendered =>
          /\ now \in NowSet
          /\ body = Concat([k \in 1..N |-> (ds[k] \o ": ") \o Classification(k) \o "\n"])
          /\ \E k \in 1..N : Classification(k) # OkText(rev)
          /\ body # Concat([k \in 1..N |-> (ds[k] \o ": ") \o OkText(rev) \o "\n"])

\* C19 witness: a rendered report with an ok line (gap one tick over the
\* threshold) beside a line at the threshold.
C19_Witness ==
    /\ Rendered
    /\ \E k \in 1..N : items[k].err = nil /\ Gap(k) = Threshold(rev) + 1
    /\ \E k \in 1..N : items[k].err = nil /\ Gap(k) = Threshold(rev)

====
